---- MODULE Spec2Model ----
(***************************************************************************)
(* A model of mallorn.py, a decision-tree engine: the node classes, the    *)
(* tree evaluator (DecisionTree.get_outcome), the reachability search      *)
(* (get_query_for_outcome), the query algebra (intersection,               *)
(* subtract_querysets), the differ (compare_outcomes), replace and the     *)
(* serializer.                                                             *)
(*                                                                         *)
(* Python values are tagged: <<"str", chars>> is a str whose characters    *)
(* are the one-character strings of the tuple chars, <<"int", n>> an int,  *)
(* <<"list", seq>> a list, <<"set", S>> a set, <<"None">> is None.  A dict *)
(* is a function from its keys; node ids are naturals.  A str the program  *)
(* never orders with < (a product, an OS, a locale, an outcome value) is   *)
(* written with its word as one element of chars: <<"str", <<"linux">>>>.  *)
(***************************************************************************)
EXTENDS Integers, Sequences, FiniteSets, TLC

VARIABLES
    heap,            \* address -> dict of node id -> node (the dict objects)
    trees,           \* the DecisionTree objects: trees[i].nodes is an address
    query,           \* the caller's query dict (GradualRolloutNode pops from it)
    pc,              \* "idle", or "get_outcome" inside the loop of get_outcome
    self,            \* index of the tree get_outcome runs on
    current_node_id, \* get_outcome's local
    entry_query,     \* the query as it was when the running call started
    path,            \* node ids whose get_outcome this call has invoked
    calls,           \* the completed get_outcome calls, oldest first
    reach,           \* the last get_query_for_outcome call and what it returned
    replaced,        \* the replace calls made so far
    diff,            \* the last compare_outcomes call and what it returned
    terms,           \* the queries handed to intersection / subtract_querysets
    algebra,         \* the last intersection or subtract_querysets results
    serial           \* the last serialize / deserialize call and its result

vars == <<heap, trees, query, pc, self, current_node_id, entry_query, path,
          calls, reach, replaced, diff, terms, algebra, serial>>

-----------------------------------------------------------------------------
(* Python values *)

PyStr(chars) == <<"str", chars>>
PyInt(n) == <<"int", n>>
PyList(seq) == <<"list", seq>>
PySet(S) == <<"set", S>>
Word(w) == PyStr(<<w>>)
None == <<"None">>

IsStr(v) == v[1] = "str"
IsInt(v) == v[1] = "int"

\* The characters of the strs the model orders, in ASCII order.
Ascii == <<" ", "!", ",", "-", ".", "0", "1", "2", "3", "4", "5", "6", "7",
           "8", "9", "<", "=", ">">>

Ord(c) == CHOOSE i \in 1..Len(Ascii) : Ascii[i] = c

\* str < str of Python: lexicographic on the characters, a proper prefix is less.
RECURSIVE StrLess(_, _)
StrLess(a, b) ==
    IF b = <<>> THEN FALSE
    ELSE IF a = <<>> THEN TRUE
    ELSE IF Head(a) = Head(b) THEN StrLess(Tail(a), Tail(b))
    ELSE Ord(Head(a)) < Ord(Head(b))

\* a < b for two strs or two ints.
PyLess(a, b) == IF IsStr(a) THEN StrLess(a[2], b[2]) ELSE a[2] < b[2]

Digit(d) == <<"0", "1", "2", "3", "4", "5", "6", "7", "8", "9">>[d + 1]

\* str(n) for an int n >= 0.
RECURSIVE IntToStr(_)
IntToStr(n) ==
    IF n < 10 THEN <<Digit(n)>> ELSE IntToStr(n \div 10) \o <<Digit(n % 10)>>

\* '{}'.format(v): a str is copied, an int is written in decimal.
Format(v) == IF IsStr(v) THEN v[2] ELSE IntToStr(v[2])

\* sep.join(items) for a sequence of character sequences.
RECURSIVE Join(_, _)
Join(sep, items) ==
    IF items = <<>> THEN <<>>
    ELSE IF Len(items) = 1 THEN items[1]
    ELSE items[1] \o sep \o Join(sep, Tail(items))

\* The order in which Python iterates over a set: some fixed order of its
\* elements.
RECURSIVE SetOrder(_)
SetOrder(S) ==
    IF S = {} THEN <<>>
    ELSE LET m == CHOOSE x \in S : TRUE
         IN <<m>> \o SetOrder(S \ {m})

\* list(c) and set(c) for a list or set c.
ToList(c) == IF c[1] = "set" THEN PyList(SetOrder(c[2])) ELSE c
ToSet(c) == IF c[1] = "list" THEN PySet({c[2][i] : i \in 1..Len(c[2])}) ELSE c

\* v in c for a list or set c.
PyIn(v, c) ==
    IF c[1] = "set" THEN v \in c[2] ELSE \E i \in 1..Len(c[2]) : c[2][i] = v

EmptyDict == [k \in {} |-> None]

\* d[k] = v on a dict.
Put(d, k, v) == [kk \in DOMAIN d \cup {k} |-> IF kk = k THEN v ELSE d[kk]]

-----------------------------------------------------------------------------
(* What a node's get_outcome hands back, with the query as the call left it *)

Outcome(value) == [kind |-> "Outcome", value |-> value]
Continue(next_node_id) == [kind |-> "Continue", next_node_id |-> next_node_id]
Raise(error) == [kind |-> "Raise", error |-> error]
ReturnsNone == [kind |-> "None"]

Ret(result, q) == [result |-> result, query |-> q]

-----------------------------------------------------------------------------
(* The node classes: constructor, get_outcome, outgoing_edges *)

Edge(q, next_node) == [query |-> q, next_node |-> next_node]

\* An instance of the abstract base class: get_outcome is "pass".
DecisionNode == [type |-> "DecisionNode"]

DecisionNode_get_outcome(node, q) == Ret(ReturnsNone, q)

DecisionNode_outgoing_edges(node) == <<>>

OutcomeNode(value) == [type |-> "OutcomeNode", value |-> value]

OutcomeNode_get_outcome(node, q) == Ret(Outcome(node.value), q)

VersionCutoffNode(cutoff, less_node, greater_or_equal_node) ==
    [type |-> "VersionCutoffNode", cutoff |-> cutoff, less_node |-> less_node,
     greater_or_equal_node |-> greater_or_equal_node]

VersionCutoffNode_get_outcome(node, q) ==
    IF "version" \notin DOMAIN q THEN Ret(Raise("KeyError"), q)
    ELSE IF q["version"][1] # node.cutoff[1]
    THEN Ret(Raise("TypeError"), q)
    ELSE IF PyLess(q["version"], node.cutoff)
    THEN Ret(Continue(node.less_node), q)
    ELSE Ret(Continue(node.greater_or_equal_node), q)

VersionCutoffNode_outgoing_edges(node) ==
    << Edge([version |-> PyStr(<<"<">> \o Format(node.cutoff))], node.less_node),
       Edge([version |-> PyStr(<<">", "=">> \o Format(node.cutoff))],
            node.greater_or_equal_node) >>

VersionExactNode(match, success_node, failure_node) ==
    [type |-> "VersionExactNode", match |-> match,
     success_node |-> success_node, failure_node |-> failure_node]

\* As VersionExactNode_get_outcome, but reading with query.get('version').
VersionExactNode_get_outcome_get(node, q) ==
    IF "version" \in DOMAIN q /\ q["version"] = node.match
    THEN Ret(Continue(node.success_node), q)
    ELSE Ret(Continue(node.failure_node), q)

VersionExactNode_get_outcome(node, q) ==
    IF "version" \notin DOMAIN q THEN Ret(Raise("KeyError"), q)
    ELSE IF q["version"] = node.match THEN Ret(Continue(node.success_node), q)
    ELSE Ret(Continue(node.failure_node), q)

VersionExactNode_outgoing_edges(node) ==
    << Edge([version |-> PyStr(<<"=", "=">> \o Format(node.match))],
            node.success_node),
       Edge([version |-> PyStr(<<"!", "=">> \o Format(node.match))],
            node.failure_node) >>

OperatingSystemNode(windows_node, linux_node, macos_node) ==
    [type |-> "OperatingSystemNode", windows_node |-> windows_node,
     linux_node |-> linux_node, macos_node |-> macos_node]

OperatingSystemNode_get_outcome(node, q) ==
    IF "os" \notin DOMAIN q THEN Ret(Raise("KeyError"), q)
    ELSE IF q["os"] = Word("windows")
    THEN Ret(Continue(node.windows_node), q)
    ELSE IF q["os"] = Word("linux")
    THEN Ret(Continue(node.linux_node), q)
    ELSE Ret(Continue(node.macos_node), q)

OperatingSystemNode_outgoing_edges(node) ==
    << Edge([os |-> Word("windows")],
            node.windows_node),
       Edge([os |-> Word("linux")], node.linux_node),
       Edge([os |-> Word("macos")], node.macos_node) >>

ProductNode(product, success_node, failure_node) ==
    [type |-> "ProductNode", product |-> product,
     success_node |-> success_node, failure_node |-> failure_node]

ProductNode_get_outcome(node, q) ==
    IF "product" \notin DOMAIN q THEN Ret(Raise("KeyError"), q)
    ELSE IF q["product"] = node.product THEN Ret(Continue(node.success_node), q)
    ELSE Ret(Continue(node.failure_node), q)

ProductNode_outgoing_edges(node) ==
    << Edge([product |-> PyStr(<<"=", "=">> \o Format(node.product))],
            node.success_node),
       Edge([product |-> PyStr(<<"!", "=">> \o Format(node.product))],
            node.failure_node) >>

CPUArchitectureNode(node_32bit, node_64bit) ==
    [type |-> "CPUArchitectureNode", node_32bit |-> node_32bit,
     node_64bit |-> node_64bit]

CPUArchitectureNode_get_outcome(node, q) ==
    IF "cpuarch" \notin DOMAIN q THEN Ret(Raise("KeyError"), q)
    ELSE IF q["cpuarch"] = PyInt(32) THEN Ret(Continue(node.node_32bit), q)
    ELSE Ret(Continue(node.node_64bit), q)

CPUArchitectureNode_outgoing_edges(node) ==
    << Edge([cpuarch |-> PyInt(32)], node.node_32bit),
       Edge([cpuarch |-> PyInt(64)], node.node_64bit) >>

OSArchitectureNode(node_32bit, node_64bit) ==
    [type |-> "OSArchitectureNode", node_32bit |-> node_32bit,
     node_64bit |-> node_64bit]

OSArchitectureNode_get_outcome(node, q) ==
    IF "osarch" \notin DOMAIN q THEN Ret(Raise("KeyError"), q)
    ELSE IF q["osarch"] = PyInt(32) THEN Ret(Continue(node.node_32bit), q)
    ELSE Ret(Continue(node.node_64bit), q)

OSArchitectureNode_outgoing_edges(node) ==
    << Edge([osarch |-> PyInt(32)], node.node_32bit),
       Edge([osarch |-> PyInt(64)], node.node_64bit) >>

\* locales is whatever collection the caller passed: a set or a list of strs.
LocaleMatcherNode(locales, success_node, failure_node) ==
    [type |-> "LocaleMatcherNode", locales |-> locales,
     success_node |-> success_node, failure_node |-> failure_node]

LocaleMatcherNode_get_outcome(node, q) ==
    IF "locale" \notin DOMAIN q THEN Ret(Raise("KeyError"), q)
    ELSE IF PyIn(q["locale"], node.locales)
    THEN Ret(Continue(node.success_node), q)
    ELSE Ret(Continue(node.failure_node), q)

\* ', '.join(self.locales)
JoinLocales(locales) ==
    LET items == ToList(locales)[2]
    IN Join(<<",", " ">>, [i \in 1..Len(items) |-> items[i][2]])

LocaleMatcherNode_outgoing_edges(node) ==
    << Edge([locale |-> PyStr(<<"i", "n", " ">> \o JoinLocales(node.locales))],
            node.success_node),
       Edge([locale |-> PyStr(<<"a", "n", "y", " ", "b", "u", "t", " ">>
                              \o JoinLocales(node.locales))],
            node.failure_node) >>

\* key is a dict key (a TLA+ string), value any Python value.
ArbitraryMatcherNode(key, value, success_node, failure_node) ==
    [type |-> "ArbitraryMatcherNode", key |-> key, value |-> value,
     success_node |-> success_node, failure_node |-> failure_node]

\* As ArbitraryMatcherNode_get_outcome, but reading with query.pop(self.key).
ArbitraryMatcherNode_get_outcome_pop(node, q) ==
    IF node.key \notin DOMAIN q THEN Ret(Raise("KeyError"), q)
    ELSE LET popped == [k \in DOMAIN q \ {node.key} |-> q[k]]
         IN IF q[node.key] = node.value
            THEN Ret(Continue(node.success_node), popped)
            ELSE Ret(Continue(node.failure_node), popped)

ArbitraryMatcherNode_get_outcome(node, q) ==
    IF node.key \notin DOMAIN q THEN Ret(Raise("KeyError"), q)
    ELSE IF q[node.key] = node.value THEN Ret(Continue(node.success_node), q)
    ELSE Ret(Continue(node.failure_node), q)

ArbitraryMatcherNode_outgoing_edges(node) ==
    << Edge((node.key :> PyStr(<<"=", "=">> \o Format(node.value))),
            node.success_node),
       Edge((node.key :> PyStr(<<"!", "=">> \o Format(node.value))),
            node.failure_node) >>

GradualRolloutNode(rollout_pct, inside_node, outside_node) ==
    [type |-> "GradualRolloutNode", rollout_pct |-> rollout_pct,
     inside_node |-> inside_node, outside_node |-> outside_node]

\* With 'force' in the query the draw is popped off the caller's list; without
\* it the code reads the name random, which the module never imports.
GradualRolloutNode_get_outcome(node, q) ==
    IF "force" \in DOMAIN q
    THEN LET force == q["force"][2]
         IN IF force = <<>> THEN Ret(Raise("IndexError"), q)
            ELSE LET n == Head(force)
                     q2 == [q EXCEPT !["force"] = PyList(Tail(force))]
                 IN IF n < node.rollout_pct
                    THEN Ret(Continue(node.inside_node), q2)
                    ELSE Ret(Continue(node.outside_node), q2)
    ELSE Ret(Raise("NameError"), q)

GradualRolloutNode_outgoing_edges(node) ==
    << Edge(EmptyDict, node.inside_node), Edge(EmptyDict, node.outside_node) >>

\* node.get_outcome(query): dispatch on the class of the node.
node_get_outcome(node, q) ==
    CASE node.type = "OutcomeNode" -> OutcomeNode_get_outcome(node, q)
      [] node.type = "VersionCutoffNode" -> VersionCutoffNode_get_outcome(node, q)
      [] node.type = "VersionExactNode" -> VersionExactNode_get_outcome(node, q)
      [] node.type = "OperatingSystemNode" -> OperatingSystemNode_get_outcome(node, q)
      [] node.type = "ProductNode" -> ProductNode_get_outcome(node, q)
      [] node.type = "CPUArchitectureNode" -> CPUArchitectureNode_get_outcome(node, q)
      [] node.type = "OSArchitectureNode" -> OSArchitectureNode_get_outcome(node, q)
      [] node.type = "LocaleMatcherNode" -> LocaleMatcherNode_get_outcome(node, q)
      [] node.type = "ArbitraryMatcherNode" -> ArbitraryMatcherNode_get_outcome(node, q)
      [] node.type = "GradualRolloutNode" -> GradualRolloutNode_get_outcome(node, q)
      [] node.type = "NoneType" -> Ret(Raise("AttributeError"), q)
      [] OTHER -> DecisionNode_get_outcome(node, q)

\* node.outgoing_edges(); None has no such method, which dfs reports.
outgoing_edges(node) ==
    CASE node.type = "VersionCutoffNode" -> VersionCutoffNode_outgoing_edges(node)
      [] node.type = "VersionExactNode" -> VersionExactNode_outgoing_edges(node)
      [] node.type = "OperatingSystemNode" -> OperatingSystemNode_outgoing_edges(node)
      [] node.type = "ProductNode" -> ProductNode_outgoing_edges(node)
      [] node.type = "CPUArchitectureNode" -> CPUArchitectureNode_outgoing_edges(node)
      [] node.type = "OSArchitectureNode" -> OSArchitectureNode_outgoing_edges(node)
      [] node.type = "LocaleMatcherNode" -> LocaleMatcherNode_outgoing_edges(node)
      [] node.type = "ArbitraryMatcherNode" -> ArbitraryMatcherNode_outgoing_edges(node)
      [] node.type = "GradualRolloutNode" -> GradualRolloutNode_outgoing_edges(node)
      [] OTHER -> DecisionNode_outgoing_edges(node)

-----------------------------------------------------------------------------
(* intersection *)

\* What intersection returns: None, or a dict.
NoQuery == [is_none |-> TRUE]
SomeQuery(d) == [is_none |-> FALSE, dict |-> d]

V_lt_56 == PyStr(<<"<", "5", "6">>)
V_ge_56 == PyStr(<<">", "=", "5", "6">>)
V_eq_55_0_3 == PyStr(<<"=", "=", "5", "5", ".", "0", ".", "3">>)
V_ne_55_0_3 == PyStr(<<"!", "=", "5", "5", ".", "0", ".", "3">>)
V_eq_54_0_1 == PyStr(<<"=", "=", "5", "4", ".", "0", ".", "1">>)
V_ne_54_0_1 == PyStr(<<"!", "=", "5", "4", ".", "0", ".", "1">>)
V_eq_56_0 == PyStr(<<"=", "=", "5", "6", ".", "0">>)
V_ne_56_0 == PyStr(<<"!", "=", "5", "6", ".", "0">>)
V_gt_56_0 == PyStr(<<">", "5", "6", ".", "0">>)
And == <<" ", "a", "n", "d", " ">>
V_lt_56_ne_55_0_3 == PyStr(V_lt_56[2] \o And \o V_ne_55_0_3[2])
V_lt_56_ne_55_0_3_ne_54_0_1 ==
    PyStr(V_lt_56_ne_55_0_3[2] \o And \o V_ne_54_0_1[2])

\* The body of intersection's loop for a key k both queries hold: v is
\* query1's value, r is ret[k], query2's.  The new ret[k], or None.
IntersectKey(k, v, r) ==
    IF r = v THEN r
    ELSE IF k # "version" THEN None
    ELSE IF v = V_eq_55_0_3 /\ r = V_lt_56 THEN V_eq_55_0_3
    ELSE IF v = V_ne_55_0_3 /\ r = V_lt_56 THEN V_lt_56_ne_55_0_3
    ELSE IF v = V_eq_54_0_1 /\ r = V_lt_56_ne_55_0_3 THEN V_eq_54_0_1
    ELSE IF v = V_ne_54_0_1 /\ r = V_lt_56_ne_55_0_3
    THEN V_lt_56_ne_55_0_3_ne_54_0_1
    ELSE IF v = V_eq_56_0 /\ r = V_ge_56 THEN V_eq_56_0
    ELSE IF v = V_ne_56_0 /\ r = V_ge_56 THEN V_gt_56_0
    ELSE None

intersection(query1, query2) ==
    LET ret == [k \in DOMAIN query1 \cup DOMAIN query2 |->
                   IF k \notin DOMAIN query2 THEN query1[k]
                   ELSE IF k \notin DOMAIN query1 THEN query2[k]
                   ELSE IntersectKey(k, query1[k], query2[k])]
    IN IF \E k \in DOMAIN ret : ret[k] = None THEN NoQuery ELSE SomeQuery(ret)

\* "not new_query": None and the empty dict are both falsy.
Falsy(new_query) == new_query.is_none \/ new_query.dict = EmptyDict

-----------------------------------------------------------------------------
(* DecisionTree.get_query_for_outcome *)

RecursionLimit == 12

\* What a search returns: the success_paths list, or the exception raised.
Found(success_paths) == [error |-> "", success_paths |-> success_paths]
Failed(error) == [error |-> error, success_paths |-> <<>>]

RECURSIVE dfs_from_node_with_target(_, _, _, _, _, _, _)
RECURSIVE dfs_edges(_, _, _, _, _, _, _, _)

\* The for loop of dfs_from_node_with_target over edges[i..].  The recursive
\* call is given current_path, not new_path.
dfs_edges(nodes, edges, i, current_path, current_query, success_paths, target, depth) ==
    IF i > Len(edges) THEN Found(success_paths)
    ELSE
      LET next_node == edges[i].next_node
          new_query == intersection(edges[i].query, current_query)
      IN IF \E j \in 1..Len(current_path) : current_path[j] = next_node
         THEN dfs_edges(nodes, edges, i + 1, current_path, current_query,
                        success_paths, target, depth)
         ELSE IF Falsy(new_query)
         THEN dfs_edges(nodes, edges, i + 1, current_path, current_query,
                        success_paths, target, depth)
         ELSE IF next_node = target
         THEN dfs_edges(nodes, edges, i + 1, current_path, current_query,
                        Append(success_paths, new_query.dict), target, depth)
         ELSE LET sub == dfs_from_node_with_target(
                             nodes, next_node, current_path, new_query.dict,
                             success_paths, target, depth + 1)
              IN IF sub.error # "" THEN sub
                 ELSE dfs_edges(nodes, edges, i + 1, current_path,
                                current_query, sub.success_paths, target, depth)

dfs_from_node_with_target(nodes, current_id, current_path, current_query, success_paths, target, depth) ==
    IF depth > RecursionLimit THEN Failed("RecursionError")
    ELSE IF current_id \notin DOMAIN nodes THEN Failed("KeyError")
    ELSE IF nodes[current_id].type = "NoneType" THEN Failed("AttributeError")
    ELSE dfs_edges(nodes, outgoing_edges(nodes[current_id]), 1, current_path,
                   current_query, success_paths, target, depth)

get_query_for_outcome(nodes, node_id) ==
    dfs_from_node_with_target(nodes, 0, <<0>>, EmptyDict, <<>>, node_id, 1)

-----------------------------------------------------------------------------
(* subtract_querysets *)

\* What a call returns: a value, or the exception it raised.
Returned(value) == [error |-> "", value |-> value]
Raised(error) == [error |-> error, value |-> <<>>]

\* dict.items() as a set.
Items(d) == {<<k, d[k]>> : k \in DOMAIN d}

symmetric_difference(A, B) == (A \ B) \cup (B \ A)

\* [l for l in lhs if l not in rhs]
without_common(lhs, rhs) ==
    SelectSeq(lhs, LAMBDA l : \A i \in 1..Len(rhs) : rhs[i] # l)

\* all([key == 'version' for (key, value) in list(diff)])
OnlyVersion(item_diff) == \A item \in item_diff : item[1] = "version"

subtract_querysets(lhs, rhs) ==
    LET lhs_without_common == without_common(lhs, rhs)
        rhs_without_common == without_common(rhs, lhs)
    IN IF Len(lhs_without_common) = 0 THEN Returned(<<>>)
       ELSE IF Len(rhs_without_common) = 0 THEN Returned(lhs_without_common)
       ELSE IF Len(lhs_without_common) # 2 THEN Raised("AssertionError")
       ELSE IF Len(lhs_without_common) # Len(rhs_without_common)
       THEN Raised("AssertionError")
       ELSE
         LET linux_lhs == lhs_without_common[1]
             macos_lhs == lhs_without_common[2]
             linux_rhs == rhs_without_common[1]
             macos_rhs == rhs_without_common[2]
             linux_diff == symmetric_difference(Items(linux_lhs), Items(linux_rhs))
             macos_diff == symmetric_difference(Items(macos_lhs), Items(macos_rhs))
             new_linux ==
                 IF linux_lhs["version"] = V_ge_56 /\ linux_rhs["version"] = V_gt_56_0
                 THEN <<[linux_lhs EXCEPT !["version"] = V_eq_56_0]>>
                 ELSE <<>>
             new_macos ==
                 IF macos_lhs["version"] = V_ge_56 /\ macos_rhs["version"] = V_gt_56_0
                 THEN <<[macos_lhs EXCEPT !["version"] = V_eq_56_0]>>
                 ELSE <<>>
         IN IF Cardinality(linux_diff) # 2 \/ ~OnlyVersion(linux_diff)
            THEN Raised("AssertionError")
            ELSE IF Cardinality(macos_diff) # 2 \/ ~OnlyVersion(macos_diff)
            THEN Raised("AssertionError")
            ELSE IF linux_lhs["version"] = V_gt_56_0
                    /\ linux_rhs["version"] = V_ge_56
            THEN Returned(<<>>)
            ELSE Returned(new_linux \o new_macos)

-----------------------------------------------------------------------------
(* DecisionTree.replace and DecisionTree.compare_outcomes *)

\* As replace, but without the copy: new_nodes is self.nodes itself.
replace_without_copy(h, tree, node_id, new_node) ==
    [heap |-> [h EXCEPT ![tree.nodes] = Put(h[tree.nodes], node_id, new_node)],
     tree |-> [nodes |-> tree.nodes]]

\* replace on the heap h of dicts: the dict of the receiver is copied to a
\* fresh address, the copy is assigned to, and a new tree holds the copy.
replace(h, tree, node_id, new_node) ==
    LET copied == Append(h, h[tree.nodes])
        new_nodes == Len(copied)
    IN [heap |-> [copied EXCEPT ![new_nodes] =
                      Put(copied[new_nodes], node_id, new_node)],
        tree |-> [nodes |-> new_nodes]]

\* The keys of a dict in the order the dict is iterated (here: ascending).
RECURSIVE KeyOrder(_)
KeyOrder(keys) ==
    IF keys = {} THEN <<>>
    ELSE LET m == CHOOSE x \in keys : \A y \in keys : x <= y
         IN <<m>> \o KeyOrder(keys \ {m})

\* One (queries, my_outcome, rhs_outcome) tuple of compare_outcomes.
DiffEntry(queries, my_outcome, rhs_outcome) ==
    [queries |-> queries, my_outcome |-> my_outcome,
     rhs_outcome |-> rhs_outcome]

\* The body of the for loop of compare_outcomes for the outcomes ids[i..].
RECURSIVE compare_from(_, _, _, _, _)
compare_from(my_nodes, rhs_nodes, ids, i, ret) ==
    IF i > Len(ids) THEN Returned(ret)
    ELSE
      LET node_id == ids[i]
          node == my_nodes[node_id]
          my_matching_queries == get_query_for_outcome(my_nodes, node_id)
          rhs_matching_queries == get_query_for_outcome(rhs_nodes, node_id)
          no_longer == subtract_querysets(my_matching_queries.success_paths,
                                          rhs_matching_queries.success_paths)
          brand_new == subtract_querysets(rhs_matching_queries.success_paths,
                                          my_matching_queries.success_paths)
          lost == IF no_longer.value # <<>>
                  THEN <<DiffEntry(no_longer.value, node.value, None)>>
                  ELSE <<>>
          gained == IF brand_new.value # <<>>
                    THEN <<DiffEntry(brand_new.value, None, node.value)>>
                    ELSE <<>>
      IN IF my_matching_queries.error # ""
         THEN Raised(my_matching_queries.error)
         ELSE IF rhs_matching_queries.error # ""
         THEN Raised(rhs_matching_queries.error)
         ELSE IF no_longer.error # "" THEN Raised(no_longer.error)
         ELSE IF brand_new.error # "" THEN Raised(brand_new.error)
         ELSE compare_from(my_nodes, rhs_nodes, ids, i + 1,
                           ret \o lost \o gained)

\* The OutcomeNodes of the receiver alone are compared.
compare_outcomes(my_nodes, rhs_nodes) ==
    LET outcomes == SelectSeq(KeyOrder(DOMAIN my_nodes),
                              LAMBDA node_id :
                                  my_nodes[node_id].type = "OutcomeNode")
    IN compare_from(my_nodes, rhs_nodes, outcomes, 1, <<>>)

-----------------------------------------------------------------------------
(* The graphs and queries the model is run on *)

MaxCalls == 2
MaxSteps == 6

Firefox == Word("Firefox")
Fennec == Word("Fennec")
Ver_54_0_1 == PyStr(<<"5", "4", ".", "0", ".", "1">>)
Ver_55_0_3 == PyStr(<<"5", "5", ".", "0", ".", "3">>)
Ver_56 == PyStr(<<"5", "6">>)
Ver_56_0 == PyStr(<<"5", "6", ".", "0">>)
Ver_56_0_1 == PyStr(<<"5", "6", ".", "0", ".", "1">>)
Ver_57 == PyStr(<<"5", "7">>)

\* Scenario 1 of the spec: one ProductNode.
ProductGraph ==
    (0 :> ProductNode(Firefox, 1, 2)) @@ (1 :> OutcomeNode(Word("ok")))
    @@ (2 :> OutcomeNode(Word("other")))

\* A cutoff followed by exact matches on either side.
VersionGraph ==
    (0 :> VersionCutoffNode(Ver_56, 1, 2))
    @@ (1 :> VersionExactNode(Ver_55_0_3, 3, 4))
    @@ (2 :> VersionExactNode(Ver_56_0, 5, 6))
    @@ (3 :> OutcomeNode(Word("partial"))) @@ (4 :> OutcomeNode(Word("complete")))
    @@ (5 :> OutcomeNode(Word("migrate"))) @@ (6 :> OutcomeNode(Word("newest")))

\* The OS and architecture nodes, with node 2 and node 3 shared.
PlatformGraph ==
    (0 :> OperatingSystemNode(1, 2, 2)) @@ (1 :> CPUArchitectureNode(3, 4))
    @@ (2 :> OutcomeNode(Word("unix"))) @@ (3 :> OutcomeNode(Word("win32")))
    @@ (4 :> OSArchitectureNode(3, 5)) @@ (5 :> OutcomeNode(Word("win64")))

\* The demo's node 40, ArbitraryMatcherNode('JAWS', 1, ..), and a locale node.
JawsGraph ==
    (0 :> ArbitraryMatcherNode("JAWS", PyInt(1), 1, 2))
    @@ (1 :> OutcomeNode(Word("incompatible")))
    @@ (2 :> LocaleMatcherNode(PySet({Word("de"), Word("fr")}), 3, 4))
    @@ (3 :> OutcomeNode(Word("wnp"))) @@ (4 :> OutcomeNode(Word("nownp")))

\* A GradualRolloutNode below a ProductNode, and one at the root.
RolloutGraph ==
    (0 :> ProductNode(Firefox, 1, 2)) @@ (1 :> GradualRolloutNode(50, 3, 4))
    @@ (2 :> OutcomeNode(Word("other"))) @@ (3 :> OutcomeNode(Word("inside")))
    @@ (4 :> OutcomeNode(Word("outside")))

RootRolloutGraph ==
    (0 :> GradualRolloutNode(50, 1, 2)) @@ (1 :> GradualRolloutNode(20, 3, 4))
    @@ (2 :> OutcomeNode(Word("outside"))) @@ (3 :> OutcomeNode(Word("early")))
    @@ (4 :> OutcomeNode(Word("late")))

\* A cycle 1 -> 3 -> 1 that does not pass through node 0.
CyclicGraph ==
    (0 :> ProductNode(Firefox, 1, 2)) @@ (1 :> VersionExactNode(Ver_56_0, 2, 3))
    @@ (2 :> OutcomeNode(Word("ok")))
    @@ (3 :> ArbitraryMatcherNode("JAWS", PyStr(<<"1">>), 1, 2))

\* An edge to node 9, which is no key of the node map.
DanglingGraph ==
    (0 :> ProductNode(Firefox, 1, 9)) @@ (1 :> OutcomeNode(Word("ok")))

\* The locales of the demo's VARIANT_A_AND_B, cut to three.
VARIANT_A_AND_B == PySet({Word("de"), Word("en-US"), Word("fr")})

\* The node id 'fennec-outcome' of the demo.
FennecOutcome == 48

\* The decision tree of main(), my_dt.
DemoGraph ==
    (0 :> ProductNode(Firefox, 1, FennecOutcome))
    @@ (FennecOutcome :> OutcomeNode(Word("Newest Fennec")))
    @@ (1 :> OperatingSystemNode(9, 2, 2))
    @@ (2 :> VersionCutoffNode(Ver_56, 3, 6))
    @@ (3 :> LocaleMatcherNode(VARIANT_A_AND_B, 4, 5))
    @@ (4 :> OutcomeNode(Word("firefox57-bz2-wnp")))
    @@ (5 :> OutcomeNode(Word("firefox57-bz2-nownp")))
    @@ (6 :> LocaleMatcherNode(VARIANT_A_AND_B, 7, 8))
    @@ (7 :> OutcomeNode(Word("firefox57-lzma-wnp")))
    @@ (8 :> OutcomeNode(Word("firefox57-lzma-nownp")))
    @@ (9 :> CPUArchitectureNode(11, 10))
    @@ (10 :> OSArchitectureNode(40, 11))
    @@ (11 :> VersionCutoffNode(Ver_56, 12, 16))
    @@ (12 :> VersionExactNode(Ver_55_0_3, 14, 13))
    @@ (13 :> VersionExactNode(Ver_54_0_1, 14, 15))
    @@ (14 :> OutcomeNode(Word("firefox56-bz2partial")))
    @@ (15 :> OutcomeNode(Word("firefox56-bz2complete")))
    @@ (16 :> ArbitraryMatcherNode("JAWS", PyStr(<<"1">>), 17, 6))
    @@ (17 :> OutcomeNode(Word("firefox56.0.2-jaws-incompatible")))
    @@ (40 :> ArbitraryMatcherNode("JAWS", PyInt(1), 41, 44))
    @@ (41 :> VersionExactNode(Ver_56_0, 42, 17))
    @@ (42 :> OutcomeNode(Word("firefox56.0.2-lzma-migration")))
    @@ (44 :> VersionExactNode(Ver_56_0, 45, 6))
    @@ (45 :> LocaleMatcherNode(VARIANT_A_AND_B, 46, 47))
    @@ (46 :> OutcomeNode(Word("firefox57-lzmacomplete-wnp")))
    @@ (47 :> OutcomeNode(Word("firefox57-lzmacomplete-nownp")))

\* potential_new_node_2 of main()
potential_new_node_2 == VersionCutoffNode(Ver_56, 3, 44)

\* The demo's version nodes without the OS split: versions from 56 on get
\* lzma, and node 3 would send 56.0 to lzmacomplete.
CutoffGraph ==
    (0 :> VersionCutoffNode(Ver_56, 1, 2)) @@ (1 :> OutcomeNode(Word("bz2")))
    @@ (2 :> OutcomeNode(Word("lzma")))
    @@ (3 :> VersionExactNode(Ver_56_0, 4, 2))
    @@ (4 :> OutcomeNode(Word("lzmacomplete")))

Graphs ==
    {ProductGraph, VersionGraph, PlatformGraph, JawsGraph, RolloutGraph,
     RootRolloutGraph, CyclicGraph, DanglingGraph}

\* The key of the query a node's get_outcome reads.
FieldOf(node) ==
    CASE node.type \in {"VersionCutoffNode", "VersionExactNode"} -> {"version"}
      [] node.type = "OperatingSystemNode" -> {"os"}
      [] node.type = "ProductNode" -> {"product"}
      [] node.type = "CPUArchitectureNode" -> {"cpuarch"}
      [] node.type = "OSArchitectureNode" -> {"osarch"}
      [] node.type = "LocaleMatcherNode" -> {"locale"}
      [] node.type = "ArbitraryMatcherNode" -> {node.key}
      [] node.type = "GradualRolloutNode" -> {"force"}
      [] OTHER -> {}

Fields(nodes) == UNION {FieldOf(nodes[n]) : n \in DOMAIN nodes}

\* The values a query may give a field.
FieldValues(k) ==
    CASE k = "product" -> {Firefox, Fennec}
      [] k = "os" -> {Word("windows"), Word("linux"), Word("macos"),
                      Word("freebsd")}
      [] k = "cpuarch" -> {PyInt(32), PyInt(64), PyInt(16)}
      [] k = "osarch" -> {PyInt(32), PyInt(64)}
      [] k = "version" -> {Ver_54_0_1, Ver_55_0_3, Ver_56, Ver_56_0, Ver_57}
      [] k = "locale" -> {Word("fr"), Word("xx")}
      [] k = "JAWS" -> {PyInt(1), PyStr(<<"1">>), PyInt(0)}
      [] k = "force" -> {PyList(<<>>), PyList(<<10>>), PyList(<<10, 90>>),
                         PyList(<<90, 10>>), PyList(<<10, 10, 10, 10>>)}

\* The queries over a set of keys: every key is absent or has one of its values.
RECURSIVE QueriesOver(_)
QueriesOver(keys) ==
    IF keys = {} THEN {EmptyDict}
    ELSE LET k == CHOOSE x \in keys : TRUE
             rest == QueriesOver(keys \ {k})
         IN rest \cup {Put(q, k, v) : q \in rest, v \in FieldValues(k)}

Queries(nodes) == QueriesOver(Fields(nodes))

-----------------------------------------------------------------------------
(* DecisionTree.get_outcome *)

Nodes(t) == heap[trees[t].nodes]

NotCalled == [called |-> FALSE]

\* current_node_id = 0
Call(t) ==
    /\ pc = "idle"
    /\ Len(calls) < MaxCalls
    /\ pc' = "get_outcome"
    /\ self' = t
    /\ current_node_id' = 0
    /\ entry_query' = query
    /\ path' = <<>>
    /\ UNCHANGED <<heap, trees, query, calls, reach, replaced, diff, terms,
                   algebra, serial>>

\* The call ends: with the Outcome returned, or with the exception raised.
Finish(result, q, visited) ==
    /\ pc' = "idle"
    /\ calls' = Append(calls, [self |-> self, query |-> entry_query,
                               result |-> result, path |-> visited])
    /\ query' = q
    /\ path' = visited
    /\ UNCHANGED current_node_id

\* One turn of the while loop.
Loop ==
    /\ pc = "get_outcome"
    /\ Len(path) < MaxSteps
    /\ IF current_node_id \notin DOMAIN Nodes(self)
       THEN Finish(Raise("KeyError"), query, path)
       ELSE LET r == node_get_outcome(Nodes(self)[current_node_id], query)
                visited == Append(path, current_node_id)
            IN CASE r.result.kind = "Outcome" ->
                      Finish(r.result, r.query, visited)
                 [] r.result.kind = "Raise" ->
                      Finish(r.result, r.query, visited)
                 [] r.result.kind = "None" ->
                      Finish(Raise("AttributeError"), r.query, visited)
                 [] r.result.kind = "Continue" ->
                      /\ current_node_id' = r.result.next_node_id
                      /\ query' = r.query
                      /\ path' = visited
                      /\ UNCHANGED <<pc, calls>>
    /\ UNCHANGED <<heap, trees, self, entry_query, reach, replaced, diff,
                   terms, algebra, serial>>

\* success_paths = tree.get_query_for_outcome(node_id)
GetQueryForOutcome(t, node_id) ==
    /\ pc = "idle"
    /\ reach' = [called |-> TRUE, tree |-> t, node_id |-> node_id,
                 result |-> get_query_for_outcome(Nodes(t), node_id)]
    /\ UNCHANGED <<heap, trees, query, pc, self, current_node_id, entry_query,
                   path, calls, replaced, diff, terms, algebra, serial>>

Init ==
    /\ \E g \in Graphs :
          /\ heap = <<g>>
          /\ query \in Queries(g)
    /\ trees = <<[nodes |-> 1]>>
    /\ pc = "idle"
    /\ self = 1
    /\ current_node_id = 0
    /\ entry_query = EmptyDict
    /\ path = <<>>
    /\ calls = <<>>
    /\ reach = NotCalled
    /\ replaced = <<>>
    /\ diff = NotCalled
    /\ terms = <<>>
    /\ algebra = NotCalled
    /\ serial = NotCalled

Next ==
    \/ \E t \in 1..Len(trees) : Call(t)
    \/ Loop
    \/ \E t \in 1..Len(trees) : \E node_id \in DOMAIN Nodes(t) :
          GetQueryForOutcome(t, node_id)

Spec == Init /\ [][Next]_vars

-----------------------------------------------------------------------------
(* What the claims speak of: graph shape, and when a query satisfies a region *)

Successors(nodes, n) ==
    IF n \in DOMAIN nodes /\ nodes[n].type # "NoneType"
    THEN LET edges == outgoing_edges(nodes[n])
         IN {edges[i].next_node : i \in 1..Len(edges)}
    ELSE {}

RECURSIVE ReachableFrom(_, _, _)
ReachableFrom(nodes, frontier, seen) ==
    LET new == UNION {Successors(nodes, n) : n \in frontier} \ seen
    IN IF new = {} THEN seen ELSE ReachableFrom(nodes, new, seen \cup new)

\* No node lies on a cycle of edges.
Acyclic(nodes) ==
    \A n \in DOMAIN nodes : n \notin ReachableFrom(nodes, {n}, {})

\* Every edge target is a key of the node map.
NoDangling(nodes) ==
    \A n \in DOMAIN nodes : Successors(nodes, n) \subseteq DOMAIN nodes

NoProbabilistic(nodes) ==
    \A n \in DOMAIN nodes : nodes[n].type # "GradualRolloutNode"

IsPrefix(p, s) == Len(p) <= Len(s) /\ SubSeq(s, 1, Len(p)) = p

\* s.split(sep) on character sequences.
RECURSIVE Split(_, _, _)
Split(sep, s, word) ==
    IF s = <<>> THEN <<word>>
    ELSE IF IsPrefix(sep, s)
    THEN <<word>> \o Split(sep, SubSeq(s, Len(sep) + 1, Len(s)), <<>>)
    ELSE Split(sep, Tail(s), Append(word, Head(s)))

Range(seq) == {seq[i] : i \in 1..Len(seq)}

\* The names a locale term lists after "in " or "any but ".
Listed(text) == IF text = <<>> THEN {} ELSE Range(Split(<<",", " ">>, text, <<>>))

\* A value x meets one atom of a constraint text: an operator and a literal,
\* or a bare literal.  Equality is on the text the region shows, orderings are
\* those of str.
MeetsAtom(x, atom) ==
    LET text == Format(x)
        After(p) == SubSeq(atom, Len(p) + 1, Len(atom))
    IN CASE IsPrefix(<<"=", "=">>, atom) -> text = After(<<"=", "=">>)
         [] IsPrefix(<<"!", "=">>, atom) -> text # After(<<"!", "=">>)
         [] IsPrefix(<<">", "=">>, atom) ->
              IsStr(x) /\ ~StrLess(text, After(<<">", "=">>))
         [] IsPrefix(<<"<">>, atom) -> IsStr(x) /\ StrLess(text, After(<<"<">>))
         [] IsPrefix(<<">">>, atom) -> IsStr(x) /\ StrLess(After(<<">">>), text)
         [] IsPrefix(<<"i", "n", " ">>, atom) ->
              text \in Listed(After(<<"i", "n", " ">>))
         [] IsPrefix(<<"a", "n", "y", " ", "b", "u", "t", " ">>, atom) ->
              text \notin Listed(After(<<"a", "n", "y", " ", "b", "u", "t", " ">>))
         [] OTHER -> text = atom

\* A value meets a constraint: an int constraint by being that int, a text by
\* meeting every atom joined by " and ".
Meets(x, constraint) ==
    IF IsInt(constraint) THEN x = constraint
    ELSE \A atom \in Range(Split(And, constraint[2], <<>>)) : MeetsAtom(x, atom)

\* A concrete query satisfies a region: it has every constrained field, with
\* a value that meets the constraint.
Satisfies(q, region) ==
    \A k \in DOMAIN region : k \in DOMAIN q /\ Meets(q[k], region[k])

SatisfiesSome(q, regions) ==
    \E i \in 1..Len(regions) : Satisfies(q, regions[i])

NoDuplicates(seq) ==
    \A i, j \in 1..Len(seq) : i # j => seq[i] # seq[j]

\* The query of a call has every field that the nodes the call visited read;
\* the forced draws of a GradualRolloutNode are no field of the query.
SuppliesFields(call) ==
    \A i \in 1..Len(call.path) :
        FieldOf(Nodes(call.self)[call.path[i]]) \ {"force"}
            \subseteq DOMAIN call.query

\* The path starts at node 0 and every step goes along an edge of the node.
FollowsEdges(nodes, visited) ==
    /\ visited # <<>> => visited[1] = 0
    /\ \A i \in 1..(Len(visited) - 1) :
          visited[i + 1] \in Successors(nodes, visited[i])

-----------------------------------------------------------------------------
(* Claims on get_outcome and get_query_for_outcome *)

WellFormed(nodes) == Acyclic(nodes) /\ 0 \in DOMAIN nodes /\ NoDangling(nodes)

\* A finished call returned the value of the OutcomeNode its path ends in,
\* which is the only OutcomeNode on the path, and visited no node twice.
ReturnedFirstTerminal(call) ==
    LET nodes == Nodes(call.self)
        last == call.path[Len(call.path)]
    IN /\ call.result.kind = "Outcome"
       /\ FollowsEdges(nodes, call.path)
       /\ NoDuplicates(call.path)
       /\ nodes[last].type = "OutcomeNode"
       /\ call.result.value = nodes[last].value
       /\ \A i \in 1..(Len(call.path) - 1) :
             nodes[call.path[i]].type # "OutcomeNode"

\* C1: on a graph that is acyclic, has node 0 and no dangling edge, with a
\* query that supplies every field read on the path, get_outcome starts at
\* node 0, follows the edges, visits no node twice and halts (within as many
\* steps as there are nodes) returning the value of the first OutcomeNode.
C1_GetOutcomeHaltsAtFirstTerminal ==
    /\ \A i \in 1..Len(calls) :
          (WellFormed(Nodes(calls[i].self)) /\ SuppliesFields(calls[i]))
              => ReturnedFirstTerminal(calls[i])
    /\ (pc = "get_outcome" /\ WellFormed(Nodes(self)))
          => /\ NoDuplicates(Append(path, current_node_id))
             /\ FollowsEdges(Nodes(self), Append(path, current_node_id))
             /\ Len(path) < Cardinality(DOMAIN Nodes(self))

\* The same, for the graphs free of GradualRolloutNode.
GetOutcomeHaltsWithoutRollout ==
    (\A t \in 1..Len(trees) : NoProbabilistic(Nodes(t)))
        => C1_GetOutcomeHaltsAtFirstTerminal

\* C2 (state part): on a graph free of GradualRolloutNode, the calls made on
\* one tree with the query all ended the same way, and the query is as it was
\* when each of them started.
C2_SameOutcomeSameQuery ==
    (\A t \in 1..Len(trees) : NoProbabilistic(Nodes(t)))
        => /\ \A i, j \in 1..Len(calls) :
                 calls[i].self = calls[j].self
                     => calls[i].result = calls[j].result
           /\ \A i \in 1..Len(calls) : calls[i].query = query
           /\ pc = "get_outcome" => query = entry_query

\* C2: evaluation without GradualRolloutNode is pure: successive calls return
\* the same outcome, and no step of get_outcome changes the node maps or
\* the query.
C2_EvaluationIsPure ==
    /\ []C2_SameOutcomeSameQuery
    /\ [][pc = "get_outcome" => heap' = heap /\ trees' = trees]_vars

C2_Witness ==
    /\ NoProbabilistic(Nodes(1))
    /\ Len(calls) = 2
    /\ calls[1].result.kind = "Outcome"
    /\ calls[2].result.kind = "Outcome"
    /\ Len(calls[2].path) > 2

\* C3: soundness of get_query_for_outcome: whenever the search for node t
\* returned regions and a call's query satisfies one of them, the call was
\* routed to node t, and returned t's value if t is an OutcomeNode.  Stated
\* for the calls that returned an outcome, on the graphs free of
\* GradualRolloutNode, whose edges carry no constraint.
C3_ReachabilitySound ==
    \A i \in 1..Len(calls) :
        (/\ reach.called
         /\ reach.tree = calls[i].self
         /\ NoProbabilistic(Nodes(reach.tree))
         /\ reach.result.error = ""
         /\ calls[i].result.kind = "Outcome"
         /\ SatisfiesSome(calls[i].query, reach.result.success_paths))
        => /\ reach.node_id \in Range(calls[i].path)
           /\ Nodes(reach.tree)[reach.node_id].type = "OutcomeNode"
                 => calls[i].result
                        = Outcome(Nodes(reach.tree)[reach.node_id].value)

\* C4: completeness of get_query_for_outcome on an acyclic graph without
\* dangling edges: a query that get_outcome routed to OutcomeNode t
\* satisfies one of the regions returned for t, also when a value took the
\* last, catch-all branch of a node.  Stated for the graphs free of
\* GradualRolloutNode.
C4_ReachabilityComplete ==
    \A i \in 1..Len(calls) :
        (/\ reach.called
         /\ reach.tree = calls[i].self
         /\ NoProbabilistic(Nodes(reach.tree))
         /\ WellFormed(Nodes(reach.tree))
         /\ calls[i].result.kind = "Outcome"
         /\ calls[i].path[Len(calls[i].path)] = reach.node_id)
        => /\ reach.result.error = ""
           /\ SatisfiesSome(calls[i].query, reach.result.success_paths)

-----------------------------------------------------------------------------
(* Replacing nodes and diffing the trees *)

MaxTrees == 3

DiffGraphs == {DemoGraph, CutoffGraph, ProductGraph, PlatformGraph}

\* The (node_id, new_node) pairs handed to replace, per graph.
Replacements(nodes) ==
    IF nodes[0].type = "ProductNode" /\ FennecOutcome \in DOMAIN nodes
    THEN {<<2, potential_new_node_2>>, <<2, VersionCutoffNode(Ver_56, 3, 6)>>}
    ELSE IF nodes[0].type = "VersionCutoffNode"
    THEN {<<0, VersionCutoffNode(Ver_56, 1, 3)>>,
          <<0, VersionCutoffNode(Ver_56, 1, 2)>>,
          <<3, OutcomeNode(Word("lzma2"))>>,
          <<5, OutcomeNode(Word("unused"))>>}
    ELSE IF nodes[0].type = "ProductNode"
    THEN {<<0, ProductNode(Fennec, 1, 2)>>, <<0, OutcomeNode(Word("all"))>>,
          <<2, OutcomeNode(Word("none"))>>,
          <<2, ProductNode(Fennec, 1, 3)>>, <<3, OutcomeNode(Word("rest"))>>}
    ELSE {<<0, OperatingSystemNode(1, 2, 5)>>,
          <<1, OutcomeNode(Word("windows"))>>,
          <<4, OutcomeNode(Word("win64"))>>}

\* new_tree = trees[t].replace(node_id, new_node)
Replace(t, node_id, new_node) ==
    /\ pc = "idle"
    /\ Len(trees) < MaxTrees
    /\ LET r == replace(heap, trees[t], node_id, new_node)
       IN /\ heap' = r.heap
          /\ trees' = Append(trees, r.tree)
          /\ replaced' = Append(replaced,
                                [self |-> t, node_id |-> node_id,
                                 new_node |-> new_node,
                                 returned |-> Len(trees) + 1])
    /\ UNCHANGED <<query, pc, self, current_node_id, entry_query, path, calls,
                   reach, diff, terms, algebra, serial>>

\* diff = trees[t].compare_outcomes(trees[rhs]), once in a run.
CompareOutcomes(t, rhs) ==
    /\ pc = "idle"
    /\ ~diff.called
    /\ diff' = [called |-> TRUE, self |-> t, rhs |-> rhs,
                result |-> compare_outcomes(Nodes(t), Nodes(rhs))]
    /\ UNCHANGED <<heap, trees, query, pc, self, current_node_id, entry_query,
                   path, calls, reach, replaced, terms, algebra, serial>>

InitDiff ==
    /\ \E g \in DiffGraphs : heap = <<g>>
    /\ query = EmptyDict
    /\ trees = <<[nodes |-> 1]>>
    /\ pc = "idle"
    /\ self = 1
    /\ current_node_id = 0
    /\ entry_query = EmptyDict
    /\ path = <<>>
    /\ calls = <<>>
    /\ reach = NotCalled
    /\ replaced = <<>>
    /\ diff = NotCalled
    /\ terms = <<>>
    /\ algebra = NotCalled
    /\ serial = NotCalled

NextDiff ==
    \/ \E t \in 1..Len(trees) : \E r \in Replacements(Nodes(1)) :
          Replace(t, r[1], r[2])
    \/ \E t, rhs \in 1..Len(trees) : CompareOutcomes(t, rhs)

SpecDiff == InitDiff /\ [][NextDiff]_vars

-----------------------------------------------------------------------------
(* Claims on replace and compare_outcomes *)

\* The replace call that made tree rhs out of tree t, if the diff compares
\* a tree with the one a replace derived from it.
DiffedReplaces ==
    {i \in 1..Len(replaced) :
        diff.called /\ replaced[i].self = diff.self
                    /\ replaced[i].returned = diff.rhs}

\* The replace call put a VersionCutoffNode with other targets in the place
\* of a VersionCutoffNode: some versions are redirected.
RedirectsVersions(r) ==
    LET old == Nodes(r.self)
    IN /\ r.node_id \in DOMAIN old
       /\ old[r.node_id].type = "VersionCutoffNode"
       /\ r.new_node.type = "VersionCutoffNode"
       /\ r.new_node # old[r.node_id]

LostRegions(entries) ==
    {entries[i].queries : i \in {j \in 1..Len(entries) :
                                     entries[j].rhs_outcome = None}}

GainedRegions(entries) ==
    {entries[i].queries : i \in {j \in 1..Len(entries) :
                                     entries[j].my_outcome = None}}

\* C8: when a replace redirected version values, compare_outcomes(old, new)
\* returns a diff in which the region-sets lost by old outcomes are exactly
\* the region-sets gained by new outcomes.
C8_LostEqualsGained ==
    \A i \in DiffedReplaces :
        RedirectsVersions(replaced[i])
            => /\ diff.result.error = ""
               /\ LostRegions(diff.result.value) # {}
               /\ LostRegions(diff.result.value)
                      = GainedRegions(diff.result.value)

\* The same, for the tree and the replacement of main() alone.
DemoLostEqualsGained ==
    \A i \in DiffedReplaces :
        (/\ Nodes(diff.self) = DemoGraph
         /\ replaced[i].node_id = 2
         /\ replaced[i].new_node = potential_new_node_2)
            => /\ diff.result.error = ""
               /\ Cardinality(LostRegions(diff.result.value)) = 2
               /\ LostRegions(diff.result.value)
                      = GainedRegions(diff.result.value)

\* The OutcomeNodes that only the new graph has, and that its search reaches.
NewTerminals(my_nodes, rhs_nodes) ==
    {n \in DOMAIN rhs_nodes :
        /\ rhs_nodes[n].type = "OutcomeNode"
        /\ ~(n \in DOMAIN my_nodes /\ my_nodes[n].type = "OutcomeNode")
        /\ get_query_for_outcome(rhs_nodes, n).success_paths # <<>>}

\* C9: a diff of two acyclic graphs without dangling edges, if it returned,
\* holds a gained entry (regions, None, value) for every OutcomeNode that
\* only the new graph has and that is reachable there.
C9_NewTerminalsGain ==
    (/\ diff.called /\ diff.result.error = ""
     /\ WellFormed(Nodes(diff.self)) /\ WellFormed(Nodes(diff.rhs)))
        => \A n \in NewTerminals(Nodes(diff.self), Nodes(diff.rhs)) :
              \E i \in 1..Len(diff.result.value) :
                  /\ diff.result.value[i].my_outcome = None
                  /\ diff.result.value[i].rhs_outcome = Nodes(diff.rhs)[n].value

\* C10 (state part): every replace returned a tree with a dict of its own,
\* which maps node_id to new_node and every other id as the receiver does.
C10_ReturnedGraph ==
    \A i \in 1..Len(replaced) :
        LET r == replaced[i]
        IN /\ trees[r.returned].nodes # trees[r.self].nodes
           /\ Nodes(r.returned) = Put(Nodes(r.self), r.node_id, r.new_node)

\* C10: replace returns a new graph and no step changes a dict or a tree
\* that exists: the receiver, and every earlier version, stays as it was.
C10_ReplaceNeverMutates ==
    /\ []C10_ReturnedGraph
    /\ [][/\ \A a \in DOMAIN heap : heap'[a] = heap[a]
          /\ \A t \in DOMAIN trees : trees'[t] = trees[t]]_vars

\* Two versions derived one from the other, diffed against the original.
C10_Witness ==
    /\ Len(replaced) = 2
    /\ replaced[2].self = 2
    /\ Nodes(3) # Nodes(2)
    /\ Nodes(2) # Nodes(1)
    /\ diff.called /\ diff.self = 1 /\ diff.rhs = 3
    /\ diff.result.error = ""
    /\ diff.result.value # <<>>

-----------------------------------------------------------------------------
(* The query algebra on the terms the edges of the nodes produce *)

MaxRegions == 2

\* One node of every class that has edges: the versions are those of main().
TermNodes ==
    {VersionCutoffNode(Ver_56, 1, 2), VersionExactNode(Ver_55_0_3, 1, 2),
     VersionExactNode(Ver_56_0, 1, 2), VersionExactNode(Ver_56_0_1, 1, 2),
     OperatingSystemNode(1, 2, 3),
     CPUArchitectureNode(1, 2), GradualRolloutNode(50, 1, 2)}

\* The queries on the edges of those nodes.
EdgeTerms ==
    UNION {{outgoing_edges(n)[i].query : i \in 1..Len(outgoing_edges(n))} :
              n \in TermNodes}

\* intersection(x, y) where x or y is what an intersection returned: None has
\* neither copy() nor items().
intersection_of(x, y) ==
    IF x.is_none \/ y.is_none THEN Raised("AttributeError")
    ELSE Returned(intersection(x.dict, y.dict))

\* The lists of at most n distinct members of S.
RECURSIVE RegionLists(_, _)
RegionLists(S, n) ==
    IF n = 0 THEN {<<>>}
    ELSE LET shorter == RegionLists(S, n - 1)
         IN shorter \cup {Append(l, x) : l \in shorter, x \in S}

\* intersection on a, b, c = terms, in both orders and both groupings.  The
\* functions are pure: one call from each choice of terms shows all they do.
Intersect ==
    /\ ~algebra.called
    /\ LET a == terms[1]
           b == terms[2]
           c == terms[3]
       IN algebra' = [called |-> TRUE, op |-> "intersection",
                      ab |-> intersection(a, b),
                      ba |-> intersection(b, a),
                      ab_c |-> intersection_of(intersection(a, b), SomeQuery(c)),
                      a_bc |-> intersection_of(SomeQuery(a), intersection(b, c))]
    /\ UNCHANGED <<heap, trees, query, pc, self, current_node_id, entry_query,
                   path, calls, reach, replaced, diff, terms, serial>>

SubtractQuerysets(lhs, rhs) ==
    /\ ~algebra.called
    /\ algebra' = [called |-> TRUE, op |-> "subtract_querysets",
                   lhs |-> lhs, rhs |-> rhs,
                   result |-> subtract_querysets(lhs, rhs)]
    /\ UNCHANGED <<heap, trees, query, pc, self, current_node_id, entry_query,
                   path, calls, reach, replaced, diff, terms, serial>>

InitAlgebra ==
    /\ terms \in [1..3 -> EdgeTerms]
    /\ algebra = NotCalled
    /\ heap = <<>>
    /\ trees = <<>>
    /\ query = EmptyDict
    /\ pc = "idle"
    /\ self = 1
    /\ current_node_id = 0
    /\ entry_query = EmptyDict
    /\ path = <<>>
    /\ calls = <<>>
    /\ reach = NotCalled
    /\ replaced = <<>>
    /\ diff = NotCalled
    /\ serial = NotCalled

NextAlgebra ==
    \/ Intersect
    \/ \E n \in 0..MaxRegions :
          \E rhs \in RegionLists(Range(terms), MaxRegions) :
              n <= Len(terms) /\ SubtractQuerysets(SubSeq(terms, 1, n), rhs)

SpecAlgebra == InitAlgebra /\ [][NextAlgebra]_vars

-----------------------------------------------------------------------------
(* Claims on intersection and subtract_querysets *)

\* An intersection came out unsatisfiable: None, or the error of handing a
\* None on to the next intersection.
Unsatisfiable(r) == r.error # "" \/ r.value.is_none

\* The concrete queries the regions are read on: every field has a value.
AlgebraQueries ==
    {q \in QueriesOver({"version", "os", "cpuarch"}) :
        DOMAIN q = {"version", "os", "cpuarch"}}

\* C6: intersection is commutative and associative on the terms the edges
\* produce: intersection(a, b) equals intersection(b, a), and
\* intersection(intersection(a, b), c) equals
\* intersection(a, intersection(b, c)), both unsatisfiable or the same dict.
C6_IntersectionCommutesAndAssociates ==
    (algebra.called /\ algebra.op = "intersection")
        => /\ algebra.ab = algebra.ba
           /\ \/ Unsatisfiable(algebra.ab_c) /\ Unsatisfiable(algebra.a_bc)
              \/ /\ ~Unsatisfiable(algebra.ab_c)
                 /\ ~Unsatisfiable(algebra.a_bc)
                 /\ algebra.ab_c.value = algebra.a_bc.value

\* C7: subtract_querysets(A, B) returns, without an assertion failing, the
\* regions whose concrete queries are those that satisfy a member of A and no
\* member of B.
C7_SubtractIsSetDifference ==
    (algebra.called /\ algebra.op = "subtract_querysets")
        => /\ algebra.result.error = ""
           /\ \A q \in AlgebraQueries :
                 SatisfiesSome(q, algebra.result.value)
                     <=> (SatisfiesSome(q, algebra.lhs)
                          /\ ~SatisfiesSome(q, algebra.rhs))

\* The laws of the algebra that do hold of subtract_querysets: A minus A is
\* empty, A minus the empty list is A.
SubtractIdentities ==
    (algebra.called /\ algebra.op = "subtract_querysets")
        => /\ algebra.lhs = algebra.rhs => algebra.result = Returned(<<>>)
           /\ algebra.rhs = <<>> => algebra.result = Returned(algebra.lhs)

-----------------------------------------------------------------------------
(* The serializer *)

\* A dict as a value, so that a payload is a dict or None.
PyDict(d) == <<"dict", d>>

\* None where a node should be.
NoneNode == [type |-> "NoneType"]

\* json.dumps(v), the text kept as the JSON value it spells: a string, a
\* number, an array, an object or null.  A set is not JSON serializable.
RECURSIVE Encodable(_)
Encodable(v) ==
    CASE v[1] = "set" -> FALSE
      [] v[1] = "list" -> \A i \in 1..Len(v[2]) : Encodable(v[2][i])
      [] v[1] = "dict" -> \A k \in DOMAIN v[2] : Encodable(v[2][k])
      [] OTHER -> TRUE

RECURSIVE Encode(_)
Encode(v) ==
    CASE v[1] = "str" -> <<"string", v[2]>>
      [] v[1] = "int" -> <<"number", v[2]>>
      [] v[1] = "list" -> <<"array", [i \in 1..Len(v[2]) |-> Encode(v[2][i])]>>
      [] v[1] = "dict" -> <<"object", [k \in DOMAIN v[2] |-> Encode(v[2][k])]>>
      [] v[1] = "None" -> <<"null">>

json_dumps(v) ==
    IF Encodable(v) THEN Returned(Encode(v)) ELSE Raised("TypeError")

\* json.loads(text)
RECURSIVE json_loads(_)
json_loads(text) ==
    CASE text[1] = "string" -> PyStr(text[2])
      [] text[1] = "number" -> PyInt(text[2])
      [] text[1] = "array" ->
           PyList([i \in 1..Len(text[2]) |-> json_loads(text[2][i])])
      [] text[1] = "object" ->
           PyDict([k \in DOMAIN text[2] |-> json_loads(text[2][k])])
      [] text[1] = "null" -> None

\* json[key] in a deserialize: None is not subscriptable, a key may be missing.
Subscript(json, keys) ==
    IF json[1] # "dict" THEN "TypeError"
    ELSE IF keys \subseteq DOMAIN json[2] THEN "" ELSE "KeyError"

DecisionNode_serialize(node) == None

DecisionNode_deserialize(json) == Returned(NoneNode)

OutcomeNode_serialize(node) == PyDict([value |-> node.value])

OutcomeNode_deserialize(json) ==
    IF Subscript(json, {"value"}) # "" THEN Raised(Subscript(json, {"value"}))
    ELSE Returned(OutcomeNode(json[2]["value"]))

VersionCutoffNode_serialize(node) ==
    PyDict([cutoff |-> node.cutoff, lt |-> PyInt(node.less_node),
            gte |-> PyInt(node.greater_or_equal_node)])

VersionCutoffNode_deserialize(json) ==
    LET keys == {"cutoff", "lt", "gte"}
    IN IF Subscript(json, keys) # "" THEN Raised(Subscript(json, keys))
       ELSE Returned(VersionCutoffNode(json[2]["cutoff"], json[2]["lt"][2],
                                       json[2]["gte"][2]))

VersionExactNode_serialize(node) ==
    PyDict([match |-> node.match, success |-> PyInt(node.success_node),
            failure |-> PyInt(node.failure_node)])

VersionExactNode_deserialize(json) ==
    LET keys == {"match", "success", "failure"}
    IN IF Subscript(json, keys) # "" THEN Raised(Subscript(json, keys))
       ELSE Returned(VersionExactNode(json[2]["match"], json[2]["success"][2],
                                      json[2]["failure"][2]))

OperatingSystemNode_serialize(node) ==
    PyDict([windows |-> PyInt(node.windows_node),
            linux |-> PyInt(node.linux_node),
            macos |-> PyInt(node.macos_node)])

OperatingSystemNode_deserialize(json) ==
    LET keys == {"windows", "linux", "macos"}
    IN IF Subscript(json, keys) # "" THEN Raised(Subscript(json, keys))
       ELSE Returned(OperatingSystemNode(json[2]["windows"][2],
                                         json[2]["linux"][2],
                                         json[2]["macos"][2]))

ProductNode_serialize(node) ==
    PyDict([product |-> node.product, success |-> PyInt(node.success_node),
            failure |-> PyInt(node.failure_node)])

ProductNode_deserialize(json) ==
    LET keys == {"product", "success", "failure"}
    IN IF Subscript(json, keys) # "" THEN Raised(Subscript(json, keys))
       ELSE Returned(ProductNode(json[2]["product"], json[2]["success"][2],
                                 json[2]["failure"][2]))

CPUArchitectureNode_serialize(node) ==
    PyDict([node_32bit |-> PyInt(node.node_32bit),
            node_64bit |-> PyInt(node.node_64bit)])

CPUArchitectureNode_deserialize(json) ==
    LET keys == {"node_32bit", "node_64bit"}
    IN IF Subscript(json, keys) # "" THEN Raised(Subscript(json, keys))
       ELSE Returned(CPUArchitectureNode(json[2]["node_32bit"][2],
                                         json[2]["node_64bit"][2]))

OSArchitectureNode_serialize(node) ==
    PyDict([node_32bit |-> PyInt(node.node_32bit),
            node_64bit |-> PyInt(node.node_64bit)])

OSArchitectureNode_deserialize(json) ==
    LET keys == {"node_32bit", "node_64bit"}
    IN IF Subscript(json, keys) # "" THEN Raised(Subscript(json, keys))
       ELSE Returned(OSArchitectureNode(json[2]["node_32bit"][2],
                                        json[2]["node_64bit"][2]))

\* "locales": list(self.locales)
LocaleMatcherNode_serialize(node) ==
    PyDict([locales |-> ToList(node.locales),
            success |-> PyInt(node.success_node),
            failure |-> PyInt(node.failure_node)])

\* cls(set(json['locales']), ...)
LocaleMatcherNode_deserialize(json) ==
    LET keys == {"locales", "success", "failure"}
    IN IF Subscript(json, keys) # "" THEN Raised(Subscript(json, keys))
       ELSE Returned(LocaleMatcherNode(ToSet(json[2]["locales"]),
                                       json[2]["success"][2],
                                       json[2]["failure"][2]))

ArbitraryMatcherNode_serialize(node) ==
    PyDict([key |-> Word(node.key), value |-> node.value,
            success |-> PyInt(node.success_node),
            failure |-> PyInt(node.failure_node)])

ArbitraryMatcherNode_deserialize(json) ==
    LET keys == {"key", "value", "success", "failure"}
    IN IF Subscript(json, keys) # "" THEN Raised(Subscript(json, keys))
       ELSE Returned(ArbitraryMatcherNode(json[2]["key"][2][1],
                                          json[2]["value"],
                                          json[2]["success"][2],
                                          json[2]["failure"][2]))

GradualRolloutNode_serialize(node) ==
    PyDict([rollout_pct |-> PyInt(node.rollout_pct),
            inside |-> PyInt(node.inside_node),
            outside |-> PyInt(node.outside_node)])

GradualRolloutNode_deserialize(json) ==
    LET keys == {"rollout_pct", "inside", "outside"}
    IN IF Subscript(json, keys) # "" THEN Raised(Subscript(json, keys))
       ELSE Returned(GradualRolloutNode(json[2]["rollout_pct"][2],
                                        json[2]["inside"][2],
                                        json[2]["outside"][2]))

\* node.serialize(): dispatch on the class of the node.  A DecisionTree in
\* the place of a node is an empty one, whose serialize returns [].
node_serialize(node) ==
    CASE node.type = "OutcomeNode" -> OutcomeNode_serialize(node)
      [] node.type = "VersionCutoffNode" -> VersionCutoffNode_serialize(node)
      [] node.type = "VersionExactNode" -> VersionExactNode_serialize(node)
      [] node.type = "OperatingSystemNode" -> OperatingSystemNode_serialize(node)
      [] node.type = "ProductNode" -> ProductNode_serialize(node)
      [] node.type = "CPUArchitectureNode" -> CPUArchitectureNode_serialize(node)
      [] node.type = "OSArchitectureNode" -> OSArchitectureNode_serialize(node)
      [] node.type = "LocaleMatcherNode" -> LocaleMatcherNode_serialize(node)
      [] node.type = "ArbitraryMatcherNode" -> ArbitraryMatcherNode_serialize(node)
      [] node.type = "GradualRolloutNode" -> GradualRolloutNode_serialize(node)
      [] node.type = "DecisionTree" -> PyList(<<>>)
      [] OTHER -> DecisionNode_serialize(node)

\* The names of the node classes among the globals of the module.
NodeClasses ==
    {"DecisionNode", "OutcomeNode", "VersionCutoffNode", "VersionExactNode",
     "OperatingSystemNode", "ProductNode", "CPUArchitectureNode",
     "OSArchitectureNode", "LocaleMatcherNode", "ArbitraryMatcherNode",
     "GradualRolloutNode"}

\* globals()[typename].deserialize(json) for the name of a node class.
node_deserialize(typename, json) ==
    CASE typename = "OutcomeNode" -> OutcomeNode_deserialize(json)
      [] typename = "VersionCutoffNode" -> VersionCutoffNode_deserialize(json)
      [] typename = "VersionExactNode" -> VersionExactNode_deserialize(json)
      [] typename = "OperatingSystemNode" -> OperatingSystemNode_deserialize(json)
      [] typename = "ProductNode" -> ProductNode_deserialize(json)
      [] typename = "CPUArchitectureNode" -> CPUArchitectureNode_deserialize(json)
      [] typename = "OSArchitectureNode" -> OSArchitectureNode_deserialize(json)
      [] typename = "LocaleMatcherNode" -> LocaleMatcherNode_deserialize(json)
      [] typename = "ArbitraryMatcherNode" -> ArbitraryMatcherNode_deserialize(json)
      [] typename = "GradualRolloutNode" -> GradualRolloutNode_deserialize(json)
      [] typename = "DecisionNode" -> DecisionNode_deserialize(json)

\* The list comprehension of serialize from the i-th node id on: None has no
\* serialize(), and json.dumps may refuse the payload.
RECURSIVE serialize_from(_, _, _, _)
serialize_from(nodes, ids, i, ret) ==
    IF i > Len(ids) THEN Returned(ret)
    ELSE LET node_id == ids[i]
             node == nodes[node_id]
         IN IF node.type = "NoneType" THEN Raised("AttributeError")
            ELSE LET node_state == json_dumps(node_serialize(node))
                 IN IF node_state.error # "" THEN Raised(node_state.error)
                    ELSE serialize_from(nodes, ids, i + 1,
                             Append(ret, <<node_id, node.type,
                                           node_state.value>>))

serialize(nodes) == serialize_from(nodes, KeyOrder(DOMAIN nodes), 1, <<>>)

\* The other names among the globals of the module that a typename may hit:
\* classes, functions and modules without a deserialize attribute.
OtherGlobals ==
    {"Outcome", "Continue", "intersection", "subtract_querysets",
     "label_with_id", "graphviz_vertex_with_id", "safe_node_id", "edge",
     "try_render_graphviz", "format_query", "main", "json", "subprocess"}

\* DecisionTree.deserialize(state) reached through the typename
\* 'DecisionTree', state being a loaded payload: null, a number, a string, an
\* array of strings or numbers, or the object a node's serialize wrote.  The
\* for loop unpacks each element, or key, into three names: nothing to unpack
\* gives an empty DecisionTree, a number cannot be unpacked, a string of other
\* than three characters unpacks to the wrong count, and the three characters
\* of 'key' name no global.
DecisionTree_deserialize(state) ==
    CASE state[1] \in {"None", "int"} -> Raised("TypeError")
      [] state[1] = "str" ->
           IF state[2] = <<>>
           THEN Returned([type |-> "DecisionTree", nodes |-> EmptyDict])
           ELSE IF Len(state[2]) = 3 THEN Raised("KeyError")
           ELSE Raised("ValueError")
      [] state[1] = "list" ->
           IF state[2] = <<>>
           THEN Returned([type |-> "DecisionTree", nodes |-> EmptyDict])
           ELSE IF state[2][1][1] = "int" THEN Raised("TypeError")
           ELSE Raised("ValueError")
      [] state[1] = "dict" ->
           IF DOMAIN state[2] = {}
           THEN Returned([type |-> "DecisionTree", nodes |-> EmptyDict])
           ELSE IF "key" \in DOMAIN state[2] THEN Raised("KeyError")
           ELSE Raised("ValueError")

\* The loop of deserialize from the i-th triple on.  globals()[typename] is a
\* KeyError for a typename that is no global of the module, and what it finds
\* need not be a node class.
RECURSIVE deserialize_from(_, _, _)
deserialize_from(state, i, nodes) ==
    IF i > Len(state) THEN Returned(nodes)
    ELSE LET node_id == state[i][1]
             typename == state[i][2]
             node_state == state[i][3]
         IN IF typename \in OtherGlobals THEN Raised("AttributeError")
            ELSE IF typename \notin NodeClasses \cup {"DecisionTree"}
            THEN Raised("KeyError")
            ELSE LET node == IF typename = "DecisionTree"
                             THEN DecisionTree_deserialize(json_loads(node_state))
                             ELSE node_deserialize(typename,
                                                   json_loads(node_state))
                 IN IF node.error # "" THEN Raised(node.error)
                    ELSE deserialize_from(state, i + 1,
                                          Put(nodes, node_id, node.value))

deserialize(state) == deserialize_from(state, 1, EmptyDict)

-----------------------------------------------------------------------------
(* Serializing and deserializing trees *)

\* The collections a LocaleMatcherNode is built on: sets, as in main(), and
\* lists, with and without a locale given twice.
LocaleCollections ==
    {PySet({}), PySet({Word("de"), Word("fr")}), VARIANT_A_AND_B,
     PyList(<<>>), PyList(<<Word("de"), Word("fr")>>),
     PyList(<<Word("de"), Word("de"), Word("fr")>>)}

\* Nodes of every class, with edges to the node ids 2 and 3.
SerNodes ==
    {DecisionNode, OutcomeNode(Word("inner")),
     VersionCutoffNode(Ver_56, 2, 3), VersionExactNode(Ver_56_0, 2, 3),
     OperatingSystemNode(2, 3, 3), ProductNode(Firefox, 2, 3),
     CPUArchitectureNode(2, 3), OSArchitectureNode(2, 3),
     ArbitraryMatcherNode("JAWS", PyInt(1), 2, 3),
     ArbitraryMatcherNode("JAWS", PyStr(<<"1">>), 2, 3),
     GradualRolloutNode(50, 2, 3)}
        \cup {LocaleMatcherNode(c, 2, 3) : c \in LocaleCollections}

\* The trees of two such nodes over two outcomes, and the tree of main().
SerGraphs ==
    {(0 :> root @@ 1 :> inner @@ 2 :> OutcomeNode(Word("a"))
        @@ 3 :> OutcomeNode(Word("b"))) :
        root \in (SerNodes \ {OutcomeNode(Word("inner"))}), inner \in SerNodes}
        \cup {DemoGraph}

\* state = tree.serialize()
Serialize(t) ==
    /\ serial' = [called |-> TRUE, op |-> "serialize", self |-> t,
                  result |-> serialize(Nodes(t))]
    /\ UNCHANGED <<heap, trees, query, pc, self, current_node_id, entry_query,
                   path, calls, reach, replaced, diff, terms, algebra>>

\* DecisionTree.deserialize(state), of the state the last serialize returned.
Deserialize ==
    /\ serial.called /\ serial.op = "serialize" /\ serial.result.error = ""
    /\ Len(trees) < MaxTrees
    /\ LET nodes == deserialize(serial.result.value)
       IN IF nodes.error # ""
          THEN /\ serial' = [called |-> TRUE, op |-> "deserialize",
                             self |-> serial.self, state |-> serial.result.value,
                             result |-> nodes, returned |-> 0]
               /\ UNCHANGED <<heap, trees>>
          ELSE /\ heap' = Append(heap, nodes.value)
               /\ trees' = Append(trees, [nodes |-> Len(heap) + 1])
               /\ serial' = [called |-> TRUE, op |-> "deserialize",
                             self |-> serial.self, state |-> serial.result.value,
                             result |-> nodes, returned |-> Len(trees) + 1]
    /\ UNCHANGED <<query, pc, self, current_node_id, entry_query, path, calls,
                   reach, replaced, diff, terms, algebra>>

InitSer ==
    /\ \E g \in SerGraphs : heap = <<g>>
    /\ trees = <<[nodes |-> 1]>>
    /\ serial = NotCalled
    /\ query = EmptyDict
    /\ pc = "idle"
    /\ self = 1
    /\ current_node_id = 0
    /\ entry_query = EmptyDict
    /\ path = <<>>
    /\ calls = <<>>
    /\ reach = NotCalled
    /\ replaced = <<>>
    /\ diff = NotCalled
    /\ terms = <<>>
    /\ algebra = NotCalled

\* The typenames a stored triple may carry: those of the node classes, of
\* other globals of the module, and one that is no global.
Typenames == NodeClasses \cup {"DecisionTree", "Outcome", "json", "Missing"}

\* The payloads a stored triple may carry in place of its own.
NodeStates == {<<"null">>, <<"array", <<>>>>}

\* DecisionTree.deserialize(state) of the state serialize returned for the
\* first tree, read back from a store that holds typename and node_state for
\* its i-th triple.
DeserializeStored(i, typename, node_state) ==
    /\ Len(trees) < MaxTrees
    /\ LET state == [serial.result.value EXCEPT
                        ![i] = <<serial.result.value[i][1], typename,
                                 node_state>>]
           nodes == deserialize(state)
       IN IF nodes.error # ""
          THEN /\ serial' = [called |-> TRUE, op |-> "deserialize stored",
                             self |-> serial.self, state |-> state,
                             result |-> nodes, returned |-> 0]
               /\ UNCHANGED <<heap, trees>>
          ELSE /\ heap' = Append(heap, nodes.value)
               /\ trees' = Append(trees, [nodes |-> Len(heap) + 1])
               /\ serial' = [called |-> TRUE, op |-> "deserialize stored",
                             self |-> serial.self, state |-> state,
                             result |-> nodes, returned |-> Len(trees) + 1]
    /\ UNCHANGED <<query, pc, self, current_node_id, entry_query, path, calls,
                   reach, replaced, diff, terms, algebra>>

NextSer ==
    \/ \E t \in 1..Len(trees) : Serialize(t)
    \/ Deserialize
    \/ /\ serial.called /\ serial.op = "serialize" /\ Len(trees) = 1
       /\ serial.result.error = ""
       /\ \E i \in 1..Len(serial.result.value) : \E typename \in Typenames :
             \E node_state \in NodeStates \cup {serial.result.value[i][3]} :
                 DeserializeStored(i, typename, node_state)

SpecSer == InitSer /\ [][NextSer]_vars

-----------------------------------------------------------------------------
(* Claims on serialize and deserialize *)

\* Every node of the graph is of a concrete node class.
OnlyVariants(nodes) ==
    \A n \in DOMAIN nodes : nodes[n].type \in NodeClasses \ {"DecisionNode"}

\* Every LocaleMatcherNode of the graph holds its locales as a set.
LocalesAreSets(nodes) ==
    \A n \in DOMAIN nodes :
        nodes[n].type = "LocaleMatcherNode" => nodes[n].locales[1] = "set"

\* C5: for every graph g built from the node variants, a LocaleMatcherNode
\* with no locale or with a locale given twice included,
\* DecisionTree.deserialize(g.serialize()) equals g: the same node ids, and
\* for each id a node of the same class with the same parameters.
C5_RoundTrip ==
    /\ (serial.called /\ serial.op = "serialize"
           /\ OnlyVariants(Nodes(serial.self)))
          => serial.result.error = ""
    /\ (serial.called /\ serial.op = "deserialize"
           /\ OnlyVariants(Nodes(serial.self)))
          => /\ serial.result.error = ""
             /\ DOMAIN Nodes(serial.returned) = DOMAIN Nodes(serial.self)
             /\ \A n \in DOMAIN Nodes(serial.self) :
                   Nodes(serial.returned)[n] = Nodes(serial.self)[n]

\* The round trip does give back the graph when every LocaleMatcherNode was
\* built on a set: that of main() is one such graph.
RoundTripOfSets ==
    (serial.called /\ serial.op = "deserialize"
        /\ OnlyVariants(Nodes(serial.self))
        /\ LocalesAreSets(Nodes(serial.self)))
        => /\ serial.result.error = ""
           /\ Nodes(serial.returned) = Nodes(serial.self)

-----------------------------------------------------------------------------
(* Claims on the forced draws, dangling edges and missing fields *)

\* C11: with the draws forced through the query, evaluation of a graph with
\* GradualRolloutNode is deterministic: the calls made on one tree with the
\* caller's query, which carries the forced draws, return the same outcome.
C11_ForcedDrawsRepeat ==
    \A i, j \in 1..Len(calls) :
        (/\ calls[i].self = calls[j].self
         /\ ~NoProbabilistic(Nodes(calls[i].self))
         /\ "force" \in DOMAIN calls[i].query
         /\ calls[i].result.kind = "Outcome"
         /\ calls[j].result.kind = "Outcome")
        => calls[i].result = calls[j].result

\* What does hold: two calls that start from equal queries, forced draws
\* included, end the same way.
EqualDrawsRepeat ==
    \A i, j \in 1..Len(calls) :
        (calls[i].self = calls[j].self /\ calls[i].query = calls[j].query)
            => calls[i].result = calls[j].result

\* The call went along an edge of the last node it visited to a node id that
\* is no key of the node map, and ended there with the KeyError of the lookup.
FailedAtDangling(call) ==
    LET nodes == Nodes(call.self)
        last == call.path[Len(call.path)]
        r == node_get_outcome(nodes[last], call.query)
    IN /\ call.result = Raise("KeyError")
       /\ call.path # <<>>
       /\ NoProbabilistic(nodes)
       /\ r.result.kind = "Continue"
       /\ r.result.next_node_id \notin DOMAIN nodes

\* C12: a graph with an edge to a node id that is no key of the node map is
\* rejected when it is constructed, so no tree has such an edge and no
\* evaluation starts on one and fails midway at the missing node.
C12_DanglingRejected ==
    \A i \in 1..Len(calls) : ~FailedAtDangling(calls[i])

\* What does hold: on a graph with a dangling edge the calls that do not
\* take that edge return as on any graph, and one that takes it visits the
\* nodes before it and ends with KeyError.
DanglingFailsLazily ==
    \A i \in 1..Len(calls) :
        (NoProbabilistic(Nodes(calls[i].self)) /\ Acyclic(Nodes(calls[i].self))
            /\ 0 \in DOMAIN Nodes(calls[i].self) /\ SuppliesFields(calls[i]))
        => \/ ReturnedFirstTerminal(calls[i])
           \/ FailedAtDangling(calls[i])

\* The places on the path of a call whose node reads a field that the query
\* of the call does not have.
MissingAt(call) ==
    {i \in 1..Len(call.path) :
        ~(FieldOf(Nodes(call.self)[call.path[i]]) \subseteq DOMAIN call.query)}

\* C13: a call whose query lacks a field that a visited node reads fails with
\* an error at that node, the last it visits, and returns no outcome; a call
\* whose query has every field the visited nodes read is not failed for a
\* field the query lacks, and on an acyclic graph without dangling edges and
\* without GradualRolloutNode it returns the outcome.
C13_MissingFieldFailsAtNode ==
    \A i \in 1..Len(calls) :
        /\ MissingAt(calls[i]) # {}
              => /\ calls[i].result \in {Raise("KeyError"), Raise("NameError")}
                 /\ MissingAt(calls[i]) = {Len(calls[i].path)}
        /\ (MissingAt(calls[i]) = {} /\ WellFormed(Nodes(calls[i].self)))
              => /\ calls[i].result \notin {Raise("KeyError"), Raise("NameError")}
                 /\ NoProbabilistic(Nodes(calls[i].self))
                       => ReturnedFirstTerminal(calls[i])

\* A call that went two nodes deep on a query with some fields, and failed at
\* the node that reads a field the query lacks.
C13_Witness ==
    \E i \in 1..Len(calls) :
        /\ Len(calls[i].path) >= 2
        /\ calls[i].query # EmptyDict
        /\ MissingAt(calls[i]) = {Len(calls[i].path)}
        /\ calls[i].result = Raise("KeyError")

-----------------------------------------------------------------------------
(* Claims on the typenames deserialize is given *)

\* The typenames of the concrete node classes.
ConcreteClasses == NodeClasses \ {"DecisionNode"}

\* C14: DecisionTree.deserialize fails with an error, and returns no graph,
\* when the typename of a triple is not that of a concrete node class, the
\* abstract DecisionNode or another name of the module included; the graph
\* it returns holds nodes of the concrete classes only.
C14_UnknownTypenameFails ==
    (serial.called /\ serial.op = "deserialize stored")
        => /\ (\E i \in 1..Len(serial.state) :
                  serial.state[i][2] \notin ConcreteClasses)
                 => serial.result.error # "" /\ serial.returned = 0
           /\ serial.result.error = ""
                 => \A n \in DOMAIN serial.result.value :
                       serial.result.value[n].type \in ConcreteClasses

\* What does hold: a typename that is no name of the module, or names
\* something without a deserialize, makes the call fail.
ForeignTypenameFails ==
    (serial.called /\ serial.op = "deserialize stored")
        => ((\E i \in 1..Len(serial.state) :
                serial.state[i][2] \notin NodeClasses \cup {"DecisionTree"})
               => serial.result.error \in {"KeyError", "AttributeError"})

-----------------------------------------------------------------------------
(* Claims on the depth-first search of get_query_for_outcome *)

\* C15: the search goes along simple paths only, skipping an edge whose
\* target is already on the path from the root, so it terminates on every
\* finite graph, a graph with a cycle that does not pass through node 0
\* included: on a graph without dangling edges it returns its regions.
C15_SearchTerminates ==
    (reach.called /\ NoDangling(Nodes(reach.tree)))
        => reach.result.error = ""

\* What does hold: the search returns on the graphs without a cycle.
SearchTerminatesOnAcyclic ==
    (reach.called /\ WellFormed(Nodes(reach.tree)))
        => reach.result.error = ""


\* The nodes that node 0 reaches along edges of GradualRolloutNodes only, in
\* at most k steps.
RECURSIVE ThroughRollouts(_, _)
ThroughRollouts(nodes, k) ==
    IF k = 0 THEN {0}
    ELSE LET S == ThroughRollouts(nodes, k - 1)
         IN S \cup {m \in DOMAIN nodes :
                      \E n \in S \cap DOMAIN nodes :
                         /\ nodes[n].type = "GradualRolloutNode"
                         /\ m \in {nodes[n].inside_node, nodes[n].outside_node}}

\* C16: both edges of a GradualRolloutNode are unconditioned, so the node
\* never prunes the path: a node reached from the root through
\* GradualRolloutNodes is reported reachable, also when the rollout node is
\* the root and the accumulated region is still empty.
C16_RolloutNeverPrunes ==
    (/\ reach.called
     /\ reach.result.error = ""
     /\ reach.node_id # 0
     /\ reach.node_id \in ThroughRollouts(Nodes(reach.tree),
                                          Cardinality(DOMAIN Nodes(reach.tree))))
        => Len(reach.result.success_paths) > 0

\* What does hold: below a conditioned edge the rollout node passes the
\* accumulated region on to both of its targets.
RolloutBelowConditionReaches ==
    (/\ reach.called
     /\ Nodes(reach.tree) = RolloutGraph
     /\ reach.node_id \in {3, 4})
        => reach.result =
               Found(<<[product |-> PyStr(<<"=", "=">> \o Format(Firefox))]>>)

-----------------------------------------------------------------------------
(* Claims on the intersection of an exact match with a cutoff *)

\* The term is {'version': '==a'}; Literal is its a.
ExactTerm(t) == DOMAIN t = {"version"} /\ IsPrefix(<<"=", "=">>, t.version[2])
Literal(t) == PyStr(SubSeq(t.version[2], 3, Len(t.version[2])))

\* The term is {'version': '<c'} or {'version': '>=c'}.
CutoffTerm(t) ==
    /\ DOMAIN t = {"version"}
    /\ IsPrefix(<<"<">>, t.version[2]) \/ IsPrefix(<<">", "=">>, t.version[2])
    /\ Len(Split(And, t.version[2], <<>>)) = 1

\* intersection(x, y) came out as the claim says for an exact term e and a
\* cutoff term c: the exact term when its literal is inside the cutoff's
\* interval, None when it is not.
AsInterval(e, c, result) ==
    IF Meets(Literal(e), c.version) THEN result = SomeQuery(e)
    ELSE result = NoQuery

\* C17: the intersection of an exact match '==a' with a cutoff '<c' or '>=c'
\* on version, in either order, is the exact match when a is inside the
\* cutoff's interval and unsatisfiable otherwise, for every literal a.
C17_ExactMeetsCutoff ==
    (algebra.called /\ algebra.op = "intersection")
        => /\ (ExactTerm(terms[1]) /\ CutoffTerm(terms[2]))
                 => AsInterval(terms[1], terms[2], algebra.ab)
           /\ (CutoffTerm(terms[1]) /\ ExactTerm(terms[2]))
                 => AsInterval(terms[2], terms[1], algebra.ab)

\* What does hold: with the exact match as the first argument and one of the
\* two literals the function names, the result is as the claim says.
NamedLiteralsMeetCutoff ==
    (/\ algebra.called /\ algebra.op = "intersection"
     /\ ExactTerm(terms[1]) /\ CutoffTerm(terms[2])
     /\ Literal(terms[1]) \in {Ver_55_0_3, Ver_56_0})
        => AsInterval(terms[1], terms[2], algebra.ab)

====
